---- MODULE Spec2Model ----
(***************************************************************************)
(* Model of PDFCreationWorker (src/workers.py): the document-assembly      *)
(* driver run(), the page grouping scan, processImage() and cancel().      *)
(*                                                                         *)
(* Image paths are the integers 1..n (the position of the path in the      *)
(* input list); Python's 0-based index i is modelled 1-based, so the loop  *)
(* test `i < n` reads `i <= n` and `i + 1 < n` reads `i + 1 <= n`.         *)
(* The worker thread runs run() one step at a time; cancel() is called by  *)
(* the UI thread and may interleave with any step.                         *)
(***************************************************************************)
EXTENDS Integers, Sequences, FiniteSets, TLC

\* Largest number of input images explored.
MaxImages == 4

\* Largest starting photo number explored; a run starts at 1 or at MaxStart.
MaxStart == 2

\* Largest photo count and largest photo number given to format_image_number,
\* besides the counts and numbers named below.
MaxTotal == 12
MaxNumber == 120

\* What a file is on disk: an image that is wide (width >= height) after
\* orientation, one that is tall, or a file Image.open cannot decode.
Kinds == {"wide", "tall", "bad"}

\* Ways one processImage call can fail inside its try block.
Failures == {"none", "open", "sink", "temp"}

VARIABLES
    image_paths,                \* self.image_paths
    kind,                       \* path -> Kinds: the file behind each path
    copy_images_to_output_dir,  \* self.copy_images_to_output_dir
    zip_images,                 \* self.zip_images
    delete_originals,           \* self.delete_originals
    start_photo_number,         \* self.start_photo_number
    call,                       \* latest call of a helper function, with its result
    isCanceled,                 \* self._isCanceled
    temp_processing_dir,        \* self._temp_processing_dir is not None
    zipf,                       \* self._zipf: "none", "open", "closed"
    copied_originals,           \* self._copied_originals
    pc,                         \* position of the worker thread in run()
    i,                          \* index of the grouping scan
    grouped,                    \* the list of groups built by the scan
    gi,                         \* position of `for group in grouped`
    k,                          \* image of the current group being processed
    processed,                  \* processed_path of each image of the group
    progress_count,             \* progress_count
    global_image_counter,       \* global_image_counter
    pages,                      \* pages added to the FPDF document
    emitted,                    \* signals emitted so far, in order
    docWritten,                 \* a document exists at save_path
    zipFile,                    \* file at zip_path: "absent", "partial", "closed"
    zipEntries,                 \* <<photo number, source path>> written into the archive
    folderCopies,               \* <<photo number, source path>> copied into output_folder
    tempDir,                    \* the run's temp directory exists
    tempFiles,                  \* temp_<counter> files in it
    deleted,                    \* source paths removed by os.remove
    exc,                        \* message of the exception caught at line 472
    observedCancel,             \* run() has read _isCanceled as True
    archiveFailed,              \* a write into the zip archive has raised
    cancelAt                    \* when cancel() set the flag: inside a group or at a
                                \* boundary, and the progress count at that moment

cfg == <<image_paths, kind, copy_images_to_output_dir, zip_images, delete_originals,
         start_photo_number, call>>
sinkvars == <<zipf, copied_originals, zipFile, zipEntries, folderCopies>>
tempvars == <<temp_processing_dir, tempDir, tempFiles>>
scanvars == <<i, grouped>>
loopvars == <<gi, k, processed, progress_count, global_image_counter, pages>>
vars == <<cfg, sinkvars, tempvars, scanvars, loopvars, isCanceled, pc, emitted,
          docWritten, deleted, exc, observedCancel, archiveFailed, cancelAt>>

n == Len(image_paths)

\* No helper function has been called.
NoCall == [fn |-> "none"]

Signal(s, m, c) == [sig |-> s, msg |-> m, count |-> c]

\* The worker after __init__, before run() is started.
InitWorker ==
    /\ \E len \in 0..MaxImages : image_paths = [j \in 1..len |-> j]
    /\ kind \in [1..Len(image_paths) -> Kinds]
    /\ copy_images_to_output_dir \in BOOLEAN
    /\ zip_images \in BOOLEAN
    /\ delete_originals \in BOOLEAN
    /\ start_photo_number \in {1, MaxStart}
    /\ cancelAt = [pc |-> "none", progress |-> 0]
    /\ isCanceled = FALSE
    /\ temp_processing_dir = FALSE
    /\ zipf = "none"
    /\ copied_originals = <<>>
    /\ pc = "idle"
    /\ i = 1
    /\ grouped = <<>>
    /\ gi = 1
    /\ k = 1
    /\ processed = <<>>
    /\ progress_count = 0
    /\ global_image_counter = start_photo_number
    /\ pages = <<>>
    /\ emitted = <<>>
    /\ docWritten = FALSE
    /\ zipFile = "absent"
    /\ zipEntries = {}
    /\ folderCopies = {}
    /\ tempDir = FALSE
    /\ tempFiles = {}
    /\ deleted = {}
    /\ exc = "none"
    /\ observedCancel = FALSE
    /\ archiveFailed = FALSE

Init == InitWorker /\ call = NoCall

\* cancel(): called from the UI thread at any moment.
cancel ==
    /\ ~isCanceled
    /\ isCanceled' = TRUE
    /\ cancelAt' = [pc |-> IF pc \in {"proc", "place"} THEN "group" ELSE "boundary",
                     progress |-> progress_count]
    /\ UNCHANGED <<cfg, sinkvars, tempvars, scanvars, loopvars, pc, emitted,
                   docWritten, deleted, exc, observedCancel, archiveFailed>>

\* Variant of ExceptHandler that reports completion after the error.
ExceptHandler_thenFinished(e) ==
    /\ exc' = e
    /\ emitted' = emitted \o <<Signal("errorOccurred", e, 0),
                                Signal("finished", "save_path", 0)>>
    /\ pc' = "done"

\* except Exception as e: self.errorOccurred.emit(str(e))
ExceptHandler(e) ==
    /\ exc' = e
    /\ emitted' = Append(emitted, Signal("errorOccurred", e, 0))
    /\ pc' = "done"

\* is_horizontal(file_path): width >= height, False when the file cannot be read.
is_horizontal(file_path) == kind[file_path] = "wide"

\* Variant of IsPair that does not classify the second image.
IsPair_firstOnly(j) ==
    /\ kind[image_paths[j]] = "wide"
    /\ j + 1 <= n

\* Variant of IsPair that pairs only at odd positions of the list.
IsPair_aligned(j) ==
    /\ j % 2 = 1
    /\ kind[image_paths[j]] = "wide"
    /\ j + 1 <= n
    /\ kind[image_paths[j + 1]] = "wide"

\* The test that decides between a pair and a singleton at index j.
IsPair(j) ==
    /\ is_horizontal(image_paths[j])
    /\ j + 1 <= n
    /\ is_horizontal(image_paths[j + 1])

\* The group appended at index j.
GroupAt(j) ==
    IF IsPair(j) THEN <<image_paths[j], image_paths[j + 1]>>
                 ELSE <<image_paths[j]>>

\* Variant of AdvanceAt that forgets the second image of a pair.
AdvanceAt_byOne(j) == 1

\* The increment of i at index j.
AdvanceAt(j) == IF IsPair(j) THEN 2 ELSE 1

\* Variant of RunStart whose shortcut emits the notification and goes on.
RunStart_noReturn ==
    /\ pc = "idle"
    /\ IF image_paths = <<>> \/ isCanceled
       THEN /\ emitted' = Append(emitted, Signal("finished", "save_path", 0))
            /\ pc' = "letterhead"
            /\ UNCHANGED observedCancel
       ELSE /\ pc' = "letterhead"
            /\ UNCHANGED <<emitted, observedCancel>>
    /\ UNCHANGED <<cfg, sinkvars, tempvars, scanvars, loopvars, isCanceled,
                   docWritten, deleted, exc, archiveFailed,
                   cancelAt>>

\* run(), entry: the empty-list / already-cancelled shortcut.
RunStart ==
    /\ pc = "idle"
    /\ IF image_paths = <<>>
       THEN /\ emitted' = Append(emitted, Signal("finished", "save_path", 0))
            /\ pc' = "done"
            /\ UNCHANGED observedCancel
       ELSE IF isCanceled
       THEN /\ emitted' = Append(emitted, Signal("finished", "save_path", 0))
            /\ pc' = "done"
            /\ observedCancel' = TRUE
       ELSE /\ pc' = "letterhead"
            /\ UNCHANGED <<emitted, observedCancel>>
    /\ UNCHANGED <<cfg, sinkvars, tempvars, scanvars, loopvars, isCanceled,
                   docWritten, deleted, exc, archiveFailed,
                   cancelAt>>

\* Opening the letterhead image and computing the page geometry.
OpenLetterhead ==
    /\ pc = "letterhead"
    /\ \E ok \in BOOLEAN :
         IF ok THEN /\ pc' = "grouping"
                    /\ UNCHANGED <<emitted, exc>>
               ELSE ExceptHandler("letterhead")
    /\ UNCHANGED <<cfg, sinkvars, tempvars, scanvars, loopvars, isCanceled,
                   docWritten, deleted, observedCancel, archiveFailed,
                   cancelAt>>

\* One iteration of `while i < n`.
GroupStep ==
    /\ pc = "grouping"
    /\ i <= n
    /\ grouped' = Append(grouped, GroupAt(i))
    /\ i' = i + AdvanceAt(i)
    /\ UNCHANGED <<cfg, sinkvars, tempvars, loopvars, isCanceled, pc, emitted,
                   docWritten, deleted, exc, observedCancel, archiveFailed,
                   cancelAt>>

\* Exit of the scan; progress_count and global_image_counter are set.
GroupingDone ==
    /\ pc = "grouping"
    /\ ~(i <= n)
    /\ pc' = "loop"
    /\ progress_count' = 0
    /\ global_image_counter' = start_photo_number
    /\ UNCHANGED <<cfg, sinkvars, tempvars, scanvars, gi, k, processed, pages,
                   isCanceled, emitted, docWritten, deleted, exc,
                   observedCancel, archiveFailed,
                   cancelAt>>

\* Whether failure f can happen in processImage(file_path, ...): opening the
\* archive fails only when it is not open yet, a sink write only when copies
\* are requested, and an undecodable file fails at Image.open by itself.
CanFail(file_path, f) ==
    \/ f = "none"
    \/ /\ kind[file_path] # "bad"
       /\ \/ f = "open" /\ copy_images_to_output_dir /\ zip_images /\ zipf = "none"
          \/ f = "sink" /\ copy_images_to_output_dir
          \/ f = "temp"

\* Variant of processImage that always copies into the plain folder, also
\* when the archive is the sink.
processImage_alsoFolder(file_path, image_counter, f) ==
    LET decoded == kind[file_path] # "bad"
        atSink  == decoded /\ copy_images_to_output_dir
        opened  == atSink /\ zip_images /\ f # "open"
        stored  == atSink /\ f \notin {"open", "sink"}
        atTemp  == decoded /\ f \notin {"open", "sink"}
        saved   == atTemp /\ f # "temp"
    IN  [ ret |-> IF saved THEN "temp" ELSE "orig",
          zipf |-> IF opened THEN "open" ELSE zipf,
          zipFile |-> IF opened THEN "partial" ELSE zipFile,
          zipEntries |-> IF stored /\ zip_images
                         THEN zipEntries \cup {<<image_counter, file_path>>} ELSE zipEntries,
          folderCopies |-> IF stored
                           THEN folderCopies \cup {<<image_counter, file_path>>}
                           ELSE folderCopies,
          copied_originals |-> IF stored THEN Append(copied_originals, file_path)
                               ELSE copied_originals,
          temp_processing_dir |-> IF atTemp /\ ~copy_images_to_output_dir
                                  THEN TRUE ELSE temp_processing_dir,
          tempDir |-> IF atTemp THEN TRUE ELSE tempDir,
          tempFiles |-> IF saved THEN tempFiles \cup {image_counter} ELSE tempFiles,
          archiveFailed |-> archiveFailed \/ (atSink /\ zip_images /\ f = "sink") ]

\* processImage(file_path, image_counter) when failure f strikes: the value
\* returned and the worker fields and files as the call leaves them. Every
\* exception is caught by the function's own handler, which returns file_path.
processImage(file_path, image_counter, f) ==
    LET decoded == kind[file_path] # "bad"
        atSink  == decoded /\ copy_images_to_output_dir
        opened  == atSink /\ zip_images /\ f # "open"
        stored  == atSink /\ f \notin {"open", "sink"}
        atTemp  == decoded /\ f \notin {"open", "sink"}
        saved   == atTemp /\ f # "temp"
    IN  [ ret |-> IF saved THEN "temp" ELSE "orig",
          zipf |-> IF opened THEN "open" ELSE zipf,
          zipFile |-> IF opened THEN "partial" ELSE zipFile,
          zipEntries |-> IF stored /\ zip_images
                         THEN zipEntries \cup {<<image_counter, file_path>>} ELSE zipEntries,
          folderCopies |-> IF stored /\ ~zip_images
                           THEN folderCopies \cup {<<image_counter, file_path>>}
                           ELSE folderCopies,
          copied_originals |-> IF stored THEN Append(copied_originals, file_path)
                               ELSE copied_originals,
          temp_processing_dir |-> IF atTemp /\ ~copy_images_to_output_dir
                                  THEN TRUE ELSE temp_processing_dir,
          tempDir |-> IF atTemp THEN TRUE ELSE tempDir,
          tempFiles |-> IF saved THEN tempFiles \cup {image_counter} ELSE tempFiles,
          archiveFailed |-> archiveFailed \/ (atSink /\ zip_images /\ f = "sink") ]

\* Variant of ImageCounter that numbers both images of a page alike.
ImageCounter_perPage(j) == global_image_counter

\* The photo number of the j-th image of the current group:
\* global_image_counter for the first, global_image_counter + 1 for the second.
ImageCounter(j) == global_image_counter + j - 1

\* Variant of ProgressAfter that counts pages instead of images.
ProgressAfter_pages(group) == progress_count + 1

\* progress_count after the group: += 1 for a singleton, += 2 for a pair.
ProgressAfter(group) == progress_count + Len(group)

\* Variant of PlacedImages that places only the first image of a page.
PlacedImages_firstOnly(group) == <<group[1]>>

\* The images drawn on the page of a group by pdf.image, top to bottom.
PlacedImages(group) == group

\* Variant of LoopHead that stays at the head of the loop for as long as the
\* cancellation flag is set.
LoopHead_spins ==
    /\ pc = "loop"
    /\ IF gi > Len(grouped)
       THEN /\ pc' = "final"
            /\ UNCHANGED <<pages, emitted, exc, observedCancel>>
       ELSE IF isCanceled
       THEN /\ pc' = "loop"
            /\ observedCancel' = TRUE
            /\ UNCHANGED <<pages, emitted, exc>>
       ELSE \E ok \in BOOLEAN :
              IF ok THEN /\ pages' = Append(pages, [letterhead |-> TRUE, images |-> <<>>,
                                                  numbers |-> <<>>])
                         /\ pc' = "proc"
                         /\ UNCHANGED <<emitted, exc, observedCancel>>
                    ELSE /\ ExceptHandler("page")
                         /\ UNCHANGED <<pages, observedCancel>>
    /\ UNCHANGED <<cfg, sinkvars, tempvars, scanvars, gi, k, processed,
                   progress_count, global_image_counter, isCanceled,
                   docWritten, deleted, archiveFailed,
                   cancelAt>>

\* Variant of LoopHead that does not read the cancellation flag.
LoopHead_noCheck ==
    /\ pc = "loop"
    /\ IF gi > Len(grouped)
       THEN /\ pc' = "final"
            /\ UNCHANGED <<pages, emitted, exc, observedCancel>>
       ELSE IF FALSE
       THEN /\ pc' = "final"
            /\ observedCancel' = TRUE
            /\ UNCHANGED <<pages, emitted, exc>>
       ELSE \E ok \in BOOLEAN :
              IF ok THEN /\ pages' = Append(pages, [letterhead |-> TRUE, images |-> <<>>,
                                                  numbers |-> <<>>])
                         /\ pc' = "proc"
                         /\ UNCHANGED <<emitted, exc, observedCancel>>
                    ELSE /\ ExceptHandler("page")
                         /\ UNCHANGED <<pages, observedCancel>>
    /\ UNCHANGED <<cfg, sinkvars, tempvars, scanvars, gi, k, processed,
                   progress_count, global_image_counter, isCanceled,
                   docWritten, deleted, archiveFailed,
                   cancelAt>>

\* Head of `for group in grouped`: the cancellation check, then add_page and
\* the letterhead image of the new page.
LoopHead ==
    /\ pc = "loop"
    /\ IF gi > Len(grouped)
       THEN /\ pc' = "final"
            /\ UNCHANGED <<pages, emitted, exc, observedCancel>>
       ELSE IF isCanceled
       THEN /\ pc' = "final"
            /\ observedCancel' = TRUE
            /\ UNCHANGED <<pages, emitted, exc>>
       ELSE \E ok \in BOOLEAN :
              IF ok THEN /\ pages' = Append(pages, [letterhead |-> TRUE, images |-> <<>>,
                                                  numbers |-> <<>>])
                         /\ pc' = "proc"
                         /\ UNCHANGED <<emitted, exc, observedCancel>>
                    ELSE /\ ExceptHandler("page")
                         /\ UNCHANGED <<pages, observedCancel>>
    /\ UNCHANGED <<cfg, sinkvars, tempvars, scanvars, gi, k, processed,
                   progress_count, global_image_counter, isCanceled,
                   docWritten, deleted, archiveFailed,
                   cancelAt>>

\* Variant of ProcessStep that reads the cancellation flag before each image
\* and abandons the group when it is set.
ProcessStep_checksFlag ==
    /\ pc = "proc"
    /\ IF isCanceled
       THEN /\ observedCancel' = TRUE
            /\ pc' = "final"
            /\ UNCHANGED <<sinkvars, tempvars, k, processed, archiveFailed>>
       ELSE /\ LET group == grouped[gi]
                   file_path == group[k]
               IN \E f \in Failures :
                    /\ CanFail(file_path, f)
                    /\ LET r == processImage(file_path, ImageCounter(k), f)
                       IN /\ processed' = Append(processed, r.ret)
                          /\ zipf' = r.zipf
                          /\ zipFile' = r.zipFile
                          /\ zipEntries' = r.zipEntries
                          /\ folderCopies' = r.folderCopies
                          /\ copied_originals' = r.copied_originals
                          /\ temp_processing_dir' = r.temp_processing_dir
                          /\ tempDir' = r.tempDir
                          /\ tempFiles' = r.tempFiles
                          /\ archiveFailed' = r.archiveFailed
                    /\ IF k = Len(group) THEN pc' = "place" /\ k' = 1
                                         ELSE pc' = pc /\ k' = k + 1
            /\ UNCHANGED observedCancel
    /\ UNCHANGED <<cfg, scanvars, gi, progress_count, global_image_counter,
                   pages, isCanceled, emitted, docWritten, deleted, exc,
                   cancelAt>>

\* One processImage call of the current group (its k-th image).
ProcessStep ==
    /\ pc = "proc"
    /\ LET group == grouped[gi]
           file_path == group[k]
       IN \E f \in Failures :
            /\ CanFail(file_path, f)
            /\ LET r == processImage(file_path, ImageCounter(k), f)
               IN /\ processed' = Append(processed, r.ret)
                  /\ zipf' = r.zipf
                  /\ zipFile' = r.zipFile
                  /\ zipEntries' = r.zipEntries
                  /\ folderCopies' = r.folderCopies
                  /\ copied_originals' = r.copied_originals
                  /\ temp_processing_dir' = r.temp_processing_dir
                  /\ tempDir' = r.tempDir
                  /\ tempFiles' = r.tempFiles
                  /\ archiveFailed' = r.archiveFailed
            /\ IF k = Len(group) THEN pc' = "place" /\ k' = 1
                                 ELSE pc' = pc /\ k' = k + 1
    /\ UNCHANGED <<cfg, scanvars, gi, progress_count, global_image_counter,
                   pages, isCanceled, emitted, docWritten, deleted, exc,
                   observedCancel,
                   cancelAt>>

\* Rest of the loop body: Image.open(processed_path) of each image, the
\* placement of images and captions, the counters and the progress tick.
PlaceGroup ==
    /\ pc = "place"
    /\ LET group == grouped[gi]
           unreadable == \E j \in 1..Len(group) :
                            processed[j] = "orig" /\ kind[group[j]] = "bad"
       IN IF unreadable
          THEN /\ ExceptHandler("decode")
               /\ UNCHANGED <<loopvars>>
          ELSE \E ok \in BOOLEAN :
                 IF ok
                 THEN /\ pages' = [pages EXCEPT ![Len(pages)] =
                            [letterhead |-> TRUE,
                             images |-> PlacedImages(group),
                             numbers |-> [j \in 1..Len(group) |-> ImageCounter(j)]]]
                      /\ global_image_counter' = global_image_counter + Len(group)
                      /\ progress_count' = ProgressAfter(group)
                      /\ emitted' = Append(emitted,
                            Signal("progressUpdate", "", ProgressAfter(group)))
                      /\ gi' = gi + 1
                      /\ processed' = <<>>
                      /\ pc' = "loop"
                      /\ UNCHANGED <<k, exc>>
                 ELSE /\ ExceptHandler("page")
                      /\ UNCHANGED <<loopvars>>
    /\ UNCHANGED <<cfg, sinkvars, tempvars, scanvars, isCanceled, docWritten,
                   deleted, observedCancel, archiveFailed,
                   cancelAt>>

\* Variant of FinalCheck that emits no status notification before the write.
FinalCheck_noStatus ==
    /\ pc = "final"
    /\ IF isCanceled
       THEN /\ observedCancel' = TRUE
            /\ pc' = "done"
       ELSE /\ pc' = "output"
            /\ UNCHANGED observedCancel
    /\ UNCHANGED <<cfg, sinkvars, tempvars, scanvars, loopvars, isCanceled,
                   emitted, docWritten, deleted, exc, archiveFailed, cancelAt>>

\* Variant of FinalCheck that finalizes without reading the flag.
FinalCheck_unconditional ==
    /\ pc = "final"
    /\ emitted' = Append(emitted, Signal("statusUpdate", "PDF wird gespeichert...", 0))
    /\ pc' = "output"
    /\ UNCHANGED <<cfg, sinkvars, tempvars, scanvars, loopvars, isCanceled,
                   docWritten, deleted, exc, observedCancel, archiveFailed,
                   cancelAt>>

\* Variant of FinalCheck that reads the flag only while groups are left.
FinalCheck_onlyIfUnfinished ==
    /\ pc = "final"
    /\ IF isCanceled /\ gi <= Len(grouped)
       THEN /\ observedCancel' = TRUE
            /\ pc' = "done"
            /\ UNCHANGED emitted
       ELSE /\ emitted' = Append(emitted, Signal("statusUpdate", "PDF wird gespeichert...", 0))
            /\ pc' = "output"
            /\ UNCHANGED observedCancel
    /\ UNCHANGED <<cfg, sinkvars, tempvars, scanvars, loopvars, isCanceled,
                   docWritten, deleted, exc, archiveFailed,
                   cancelAt>>

\* `if not self._isCanceled:` after the loop and the status notification.
FinalCheck ==
    /\ pc = "final"
    /\ IF isCanceled
       THEN /\ observedCancel' = TRUE
            /\ pc' = "done"
            /\ UNCHANGED emitted
       ELSE /\ emitted' = Append(emitted, Signal("statusUpdate", "PDF wird gespeichert...", 0))
            /\ pc' = "output"
            /\ UNCHANGED observedCancel
    /\ UNCHANGED <<cfg, sinkvars, tempvars, scanvars, loopvars, isCanceled,
                   docWritten, deleted, exc, archiveFailed,
                   cancelAt>>

\* pdf.output(self.save_path)
WriteDocument ==
    /\ pc = "output"
    /\ \E ok \in BOOLEAN :
         IF ok THEN /\ docWritten' = TRUE
                    /\ pc' = "cleanup"
                    /\ UNCHANGED <<emitted, exc>>
               ELSE /\ ExceptHandler("output")
                    /\ UNCHANGED docWritten
    /\ UNCHANGED <<cfg, sinkvars, tempvars, scanvars, loopvars, isCanceled,
                   deleted, observedCancel, archiveFailed,
                   cancelAt>>

\* Removal of the temp directory; a failing rmtree is only printed.
CleanupTemp ==
    /\ pc = "cleanup"
    /\ LET temp_dir_exists == IF copy_images_to_output_dir THEN tempDir
                              ELSE temp_processing_dir /\ tempDir
       IN IF temp_dir_exists
          THEN \E ok \in BOOLEAN :
                 IF ok THEN tempDir' = FALSE /\ tempFiles' = {}
                       ELSE UNCHANGED <<tempDir, tempFiles>>
          ELSE UNCHANGED <<tempDir, tempFiles>>
    /\ pc' = "zipclose"
    /\ UNCHANGED <<cfg, sinkvars, temp_processing_dir, scanvars, loopvars,
                   isCanceled, emitted, docWritten, deleted, exc,
                   observedCancel, archiveFailed,
                   cancelAt>>

\* self._zipf.close(); a failing close is ignored.
CloseZip ==
    /\ pc = "zipclose"
    /\ IF zipf # "none"
       THEN \E ok \in BOOLEAN :
              IF ok THEN zipf' = "closed" /\ zipFile' = "closed"
                    ELSE UNCHANGED <<zipf, zipFile>>
       ELSE UNCHANGED <<zipf, zipFile>>
    /\ pc' = "delete"
    /\ UNCHANGED <<cfg, copied_originals, zipEntries, folderCopies, tempvars,
                   scanvars, loopvars, isCanceled, emitted, docWritten,
                   deleted, exc, observedCancel, archiveFailed,
                   cancelAt>>

\* Deletion of the copied originals when delete_originals is set.
DeleteOriginals ==
    /\ pc = "delete"
    /\ IF delete_originals /\ copied_originals # <<>>
       THEN deleted' = deleted \cup {copied_originals[j] : j \in 1..Len(copied_originals)}
       ELSE UNCHANGED deleted
    /\ pc' = "finish"
    /\ UNCHANGED <<cfg, sinkvars, tempvars, scanvars, loopvars, isCanceled,
                   emitted, docWritten, exc, observedCancel, archiveFailed,
                   cancelAt>>

\* Variant of Finish that removes the temp directory just before reporting.
Finish_removesTemp ==
    /\ pc = "finish"
    /\ emitted' = Append(emitted, Signal("finished", "save_path", 0))
    /\ pc' = "done"
    /\ tempDir' = FALSE
    /\ tempFiles' = {}
    /\ UNCHANGED <<cfg, sinkvars, temp_processing_dir, scanvars, loopvars, isCanceled,
                   docWritten, deleted, exc, observedCancel, archiveFailed,
                   cancelAt>>

\* self.finished.emit(self.save_path) at the end of run().
Finish ==
    /\ pc = "finish"
    /\ emitted' = Append(emitted, Signal("finished", "save_path", 0))
    /\ pc' = "done"
    /\ UNCHANGED <<cfg, sinkvars, tempvars, scanvars, loopvars, isCanceled,
                   docWritten, deleted, exc, observedCancel, archiveFailed,
                   cancelAt>>

\* The terminal outcome of the run, as the caller sees it.
RunState ==
    IF pc = "idle" THEN "Idle"
    ELSE IF pc # "done" THEN "Running"
    ELSE IF exc # "none" THEN "Failed"
    ELSE IF observedCancel THEN "Cancelled"
    ELSE "Completed"


(***************************************************************************)
(* Helpers of the properties                                               *)
(***************************************************************************)
RECURSIVE Flatten(_)
Flatten(gs) == IF gs = <<>> THEN <<>> ELSE Head(gs) \o Flatten(Tail(gs))

RECURSIVE TotalLen(_)
TotalLen(gs) == IF gs = <<>> THEN 0 ELSE Len(Head(gs)) + TotalLen(Tail(gs))

\* Position in image_paths of the first image of group g.
StartOf(g) == 1 + TotalLen(SubSeq(grouped, 1, g - 1))

ScanFinished == pc \in {"loop", "proc", "place", "final", "output", "cleanup",
                        "zipclose", "delete", "finish"}
                \/ (pc = "done" /\ i > n /\ n > 0)

Wide(p) == kind[p] = "wide"

Count(sigName) == Cardinality({j \in 1..Len(emitted) : emitted[j].sig = sigName})

(***************************************************************************)
(* Grouping                                                                *)
(***************************************************************************)
\* C1: the groups built by the scan are a partition of the input into
\* consecutive groups: at every point of the scan the concatenation of the
\* groups is the prefix of image_paths already consumed, and once the scan
\* has ended it is image_paths itself (nothing dropped, duplicated, reordered).
C1_GroupingIsPartition ==
    /\ i <= n + 1
    /\ Flatten(grouped) = SubSeq(image_paths, 1, i - 1)
    /\ ScanFinished => Flatten(grouped) = image_paths

C1_Witness ==
    /\ ScanFinished
    /\ n >= 3
    /\ \E g \in 1..Len(grouped) : Len(grouped[g]) = 2
    /\ \E g \in 1..Len(grouped) : Len(grouped[g]) = 1

\* C2: every group has one or two images, a group of two has two wide
\* members, and an image that is not wide is alone in its group (so two
\* consecutive tall images are two singleton groups).
C2_PairsAreWide ==
    \A g \in 1..Len(grouped) :
        /\ Len(grouped[g]) \in {1, 2}
        /\ Len(grouped[g]) = 2 => Wide(grouped[g][1]) /\ Wide(grouped[g][2])
        /\ \A j \in 1..Len(grouped[g]) : ~Wide(grouped[g][j]) => Len(grouped[g]) = 1

C2_Witness ==
    /\ ScanFinished
    /\ \E g \in 1..Len(grouped) : Len(grouped[g]) = 2
    /\ \E g \in 1..(Len(grouped) - 1) :
          /\ kind[grouped[g][1]] = "tall"
          /\ kind[grouped[g + 1][1]] = "tall"
          /\ Len(grouped[g]) = 1 /\ Len(grouped[g + 1]) = 1

\* C3: the grouping is the greedy left-to-right scan: the group that starts
\* at position s is the pair (s, s+1) when both images are wide, and the
\* singleton (s) otherwise; hence a singleton wide image is never followed by
\* a group that starts with a wide image.
C3_GreedyScan ==
    /\ \A g \in 1..Len(grouped) :
          LET s == StartOf(g)
          IN /\ s <= n
             /\ grouped[g] =
                   IF Wide(image_paths[s]) /\ s + 1 <= n /\ Wide(image_paths[s + 1])
                   THEN <<image_paths[s], image_paths[s + 1]>>
                   ELSE <<image_paths[s]>>
    /\ \A g \in 1..(Len(grouped) - 1) :
          Len(grouped[g]) = 1 /\ Wide(grouped[g][1]) => ~Wide(grouped[g + 1][1])

C3_Witness ==
    /\ ScanFinished
    /\ \E g \in 1..(Len(grouped) - 1) :
          /\ Len(grouped[g]) = 2
          /\ Len(grouped[g + 1]) = 1 /\ Wide(grouped[g + 1][1])
    /\ \E g \in 1..(Len(grouped) - 1) :
          /\ Len(grouped[g]) = 1 /\ Wide(grouped[g][1])
          /\ ~Wide(grouped[g + 1][1])

(***************************************************************************)
(* Cancellation                                                            *)
(***************************************************************************)
\* C4: a run that ends Cancelled has not written the final document,
\* whatever number of groups had been placed.
C4_CancelledNoDocument == RunState = "Cancelled" => ~docWritten

C4_Witness ==
    /\ RunState = "Cancelled"
    /\ progress_count >= 2
    /\ progress_count < n

\* C5: a run that ends Cancelled emits neither finished nor errorOccurred,
\* also when the flag was already set as the run started.
C5_CancelledIsSilent ==
    RunState = "Cancelled" => Count("finished") = 0 /\ Count("errorOccurred") = 0

\* C6: in a terminal state Completed or Cancelled no temp file and no temp
\* directory of the run is left.
C6_TempFilesRemoved ==
    RunState \in {"Completed", "Cancelled"} => tempFiles = {} /\ ~tempDir

\* C7: with zip archiving enabled, a run that ends Cancelled after one or
\* more groups were processed has written no archive to the output location.
C7_CancelledNoArchive ==
    RunState = "Cancelled" /\ zip_images /\ copy_images_to_output_dir
        /\ progress_count >= 1
    => zipFile = "absent"

(***************************************************************************)
(* Errors                                                                  *)
(***************************************************************************)
\* C8: an exception that escapes the processing in run() ends the run
\* Failed: exactly one errorOccurred carrying the exception's message is
\* emitted, it is the last signal, finished is not emitted and no document
\* has been written.
C8_ExceptionEndsFailed ==
    exc # "none" =>
        /\ pc = "done"
        /\ Count("errorOccurred") = 1
        /\ emitted[Len(emitted)] = Signal("errorOccurred", exc, 0)
        /\ Count("finished") = 0
        /\ ~docWritten

C8_Witness ==
    /\ RunState = "Failed"
    /\ exc = "output"
    /\ progress_count = n
    /\ n >= 2

\* C9: an undecodable input image never makes the run end Failed: the
\* exception of reading that image is never the one reported.
C9_BadImageNeverFails == RunState = "Failed" => exc # "decode"

\* C10: when a write into the zip archive has failed the run does not end
\* Completed.
C10_ArchiveFailureIsFatal == archiveFailed => RunState # "Completed"

(***************************************************************************)
(* Group processing, progress and finalization                             *)
(***************************************************************************)
Ticks == SelectSeq(emitted, LAMBDA e : e.sig = "progressUpdate")

\* Number of images drawn on the first g pages.
RECURSIVE ImagesOnPages(_)
ImagesOnPages(g) == IF g = 0 THEN 0 ELSE Len(pages[g].images) + ImagesOnPages(g - 1)

\* Position of path p in the input list.
PosOf(p) == CHOOSE j \in 1..n : image_paths[j] = p

LastSignal(seq) == seq[Len(seq)]

\* What a step taken while a group is in flight may do.
GroupInFlightStep ==
    pc \in {"proc", "place"} =>
          /\ observedCancel' = observedCancel
          /\ pc' = "place" => Len(processed') = Len(grouped[gi])
          /\ \/ pc' \in {"proc", "place"} /\ gi' = gi
             \/ exc' # "none"
             \/ /\ pc = "place" /\ pc' = "loop" /\ gi' = gi + 1
                /\ pages'[Len(pages')].images = grouped[gi]
                /\ progress_count' = progress_count + Len(grouped[gi])
                /\ emitted' = Append(emitted,
                                     Signal("progressUpdate", "", progress_count'))

\* C11: the flag is read only at group boundaries: a step taken while a
\* group is in flight never observes the flag; the group is left only when
\* all its images went through processImage and were placed and its progress
\* tick was emitted (or when an exception ends the run), whether or not
\* cancel() was called meanwhile.
C11_CancelOnlyAtBoundaries == [][GroupInFlightStep]_vars

C11_Witness ==
    /\ cancelAt.pc = "group"
    /\ pc = "loop"
    /\ ~observedCancel
    /\ progress_count = cancelAt.progress + 2

\* C12: one progress tick per processed group, emitted after the group is
\* placed; the j-th tick carries the number of images on the first j pages;
\* the values increase strictly, never exceed the input length, and the last
\* tick of a Completed run over a non-empty input is the input length.
C12_ProgressIsRunningCount ==
    /\ Len(Ticks) = Cardinality({g \in 1..Len(pages) : pages[g].images # <<>>})
    /\ pc \in {"loop", "proc", "place"} => Len(Ticks) = gi - 1
    /\ \A j \in 1..Len(Ticks) :
          /\ Ticks[j].count = ImagesOnPages(j)
          /\ Ticks[j].count = TotalLen(SubSeq(grouped, 1, j))
          /\ Ticks[j].count <= n
          /\ j > 1 => Ticks[j - 1].count < Ticks[j].count
    /\ RunState = "Completed" /\ n > 0 =>
          Len(Ticks) > 0 /\ Ticks[Len(Ticks)].count = n

C12_Witness ==
    /\ RunState = "Completed"
    /\ Len(Ticks) >= 2
    /\ Ticks[1].count = 2
    /\ Ticks[Len(Ticks)].count = n

\* What the steps around pdf.output may do.
DocumentWriteStep ==
        /\ (~docWritten /\ docWritten') =>
              /\ Len(emitted) > 0
              /\ LastSignal(emitted).sig = "statusUpdate"
              /\ \A j \in 1..(Len(emitted) - 1) : emitted[j].sig = "progressUpdate"
              /\ emitted' = emitted
              /\ UNCHANGED <<sinkvars, tempvars, deleted>>
        /\ (pc = "output" /\ pc' # "output") => docWritten' \/ exc' = "output"
        /\ (pc # "output" /\ pc' = "output") =>
              /\ emitted' = Append(emitted, Signal("statusUpdate",
                                                   "PDF wird gespeichert...", 0))
              /\ UNCHANGED <<sinkvars, tempvars, deleted, docWritten>>
        /\ (pc = "output" /\ pc' = "output") =>
              UNCHANGED <<emitted, sinkvars, tempvars, deleted, docWritten>>

\* C13: the document is written in the step that follows the status
\* notification: when the write happens the last signal is the status
\* notification, which came after every progress tick, and between the two
\* only cancel() can take a step; the write itself emits nothing and touches
\* no other artifact.
C13_StatusBeforeWrite == [][DocumentWriteStep]_vars

C13_Witness ==
    /\ docWritten
    /\ pc = "cleanup"
    /\ n >= 2
    /\ Len(emitted) >= 2
    /\ LastSignal(emitted).sig = "statusUpdate"
    /\ emitted[Len(emitted) - 1] = Signal("progressUpdate", "", n)

\* C14: in a Completed run over a non-empty input the document has one page
\* per group, and each page carries the letterhead and the images of its
\* group, in input order.
C14_OnePagePerGroup ==
    RunState = "Completed" /\ n > 0 =>
        /\ Len(pages) = Len(grouped)
        /\ \A g \in 1..Len(pages) :
              pages[g].letterhead /\ pages[g].images = grouped[g]

C14_Witness ==
    /\ RunState = "Completed"
    /\ Len(pages) >= 2
    /\ \E g \in 1..Len(pages) : Len(pages[g].images) = 2
    /\ \E g \in 1..Len(pages) : Len(pages[g].images) = 1

\* C15: the image at position q of the input (q = 1, 2, ...) gets photo
\* number start_photo_number + q - 1, in the caption of its page and in the
\* name of its saved copy, however the images are grouped.
C15_SequentialNumbers ==
    /\ \A g \in 1..Len(pages) : \A j \in 1..Len(pages[g].images) :
          pages[g].numbers[j] = start_photo_number + PosOf(pages[g].images[j]) - 1
    /\ \A e \in zipEntries \cup folderCopies :
          e[1] = start_photo_number + PosOf(e[2]) - 1

C15_Witness ==
    /\ RunState = "Completed"
    /\ start_photo_number > 1
    /\ Cardinality(zipEntries \cup folderCopies) >= 3
    /\ \E g \in 2..Len(pages) : Len(pages[g].images) = 2

(***************************************************************************)
(* Output sink                                                             *)
(***************************************************************************)
\* C18: saved copies go to the configured sink only: none and no archive
\* when copying is disabled; archive entries and no plain file when copying
\* and zip are enabled; plain files and no archive when zip is disabled.
C18_CopiesGoToConfiguredSink ==
    /\ ~copy_images_to_output_dir =>
          zipFile = "absent" /\ zipEntries = {} /\ folderCopies = {} /\ zipf = "none"
    /\ copy_images_to_output_dir /\ zip_images => folderCopies = {}
    /\ copy_images_to_output_dir /\ ~zip_images =>
          zipFile = "absent" /\ zipEntries = {} /\ zipf = "none"

C18_Witness ==
    /\ pc = "done"
    /\ copy_images_to_output_dir /\ zip_images
    /\ Cardinality(zipEntries) >= 2
    /\ zipFile = "closed"

\* C19: a source file is deleted only if deletion is enabled, the run is
\* completing normally, and a copy of that file was persisted during the run:
\* a file in the plain folder, or an entry of an archive that was closed.
C19_DeleteOnlyPersisted ==
    \A p \in deleted :
        /\ delete_originals
        /\ copy_images_to_output_dir
        /\ RunState \in {"Running", "Completed"}
        /\ IF zip_images
           THEN zipFile = "closed" /\ \E e \in zipEntries : e[2] = p
           ELSE \E e \in folderCopies : e[2] = p

(***************************************************************************)
(* Helper functions of the worker, applied to inputs of their own.         *)
(* Strings are sequences of one-character strings.                         *)
(***************************************************************************)
runvars == <<image_paths, kind, copy_images_to_output_dir, zip_images,
             delete_originals, start_photo_number, sinkvars, tempvars, scanvars,
             loopvars, isCanceled, pc, emitted, docWritten, deleted, exc,
             observedCancel, archiveFailed, cancelAt>>

DigitChars == <<"0", "1", "2", "3", "4", "5", "6", "7", "8", "9">>

\* str(number) of a non-negative integer.
RECURSIVE str(_)
str(number) ==
    IF number < 10 THEN <<DigitChars[number + 1]>>
    ELSE Append(str(number \div 10), DigitChars[(number % 10) + 1])

\* The format specs 02d and 03d: zeros on the left up to the width.
RECURSIVE ZeroPad(_, _)
ZeroPad(text, width) ==
    IF Len(text) >= width THEN text ELSE ZeroPad(<<"0">> \o text, width)

\* Variant of format_image_number with the thresholds one too low.
format_image_number_early(total_images, number) ==
    IF total_images < 9 THEN str(number)
    ELSE IF total_images < 99 THEN ZeroPad(str(number), 2)
    ELSE ZeroPad(str(number), 3)

\* format_image_number(number), self._total_images being total_images.
format_image_number(total_images, number) ==
    IF total_images <= 9 THEN str(number)
    ELSE IF total_images <= 99 THEN ZeroPad(str(number), 2)
    ELSE ZeroPad(str(number), 3)

\* text.startswith(c)
startswith(text, c) == Len(text) >= 1 /\ text[1] = c

FotoNr == <<" ", "F", "o", "t", "o", " ", "N", "r", ".", " ">>

\* First entry of the document-type combo box (umlauts transliterated).
Placeholder == <<"(", "D", "o", "k", "u", "m", "e", "n", "t", "e", "n", "k", "u", "e", "r", "z", "e", "l", " ", "a", "u", "s", "w", "a", "e", "h", "l", "e", "n", " ", "o", "d", "e", "r", " ", "l", "e", "e", "r", " ", "l", "a", "s", "s", "e", "n", ")">>

\* The caption of an image: its file name, or the synthesized label.
caption(basename, use_original_filenames, aktennummer, dokumentenkuerzel, dokumentenzahl, formatted_num) ==
    IF use_original_filenames THEN basename
    ELSE IF startswith(dokumentenkuerzel, "(")
    THEN aktennummer \o <<"-">> \o dokumentenzahl \o FotoNr \o formatted_num
    ELSE aktennummer \o <<"-">> \o dokumentenkuerzel \o <<"-">>
             \o dokumentenzahl \o FotoNr \o formatted_num

\* Variant of saved_overlay that looks at the saved-files flag alone.
saved_overlay_ownFlag(add_timestamp, add_timestamp_to_saved_files, has_datetime) ==
    add_timestamp_to_saved_files /\ has_datetime

\* Whether the saved copy of an image gets the timestamp overlay:
\* timestamp_text_saved is read only when both flags are set, and is None
\* when the file has no parseable capture time.
saved_overlay(add_timestamp, add_timestamp_to_saved_files, has_datetime) ==
    (add_timestamp /\ add_timestamp_to_saved_files) /\ has_datetime

\* Whether the in-document image gets the timestamp overlay.
document_overlay(add_timestamp, has_datetime) == add_timestamp /\ has_datetime

\* Photo counts and photo numbers the helpers are applied to.
FormatTotals == (0..MaxTotal) \cup {50, 99, 100, 500}
FormatNumbers == (1..MaxNumber) \cup {999, 1000}

Aktennummer == <<"1", "2", "3", "4", "5">>
Dokumentenzahl == <<"7">>
Basename == <<"I", "M", "G", "_", "1", ".", "j", "p", "g">>
Kuerzel == {Placeholder, <<>>, <<"G", "A">>, <<"B", "W", "S">>}

CallFormat ==
    /\ \E total \in FormatTotals, number \in FormatNumbers :
         call' = [fn |-> "format_image_number", total |-> total, number |-> number,
                  text |-> format_image_number(total, number)]
    /\ UNCHANGED runvars

CallCaption ==
    /\ \E kz \in Kuerzel, uo \in BOOLEAN, total \in {5, 50}, number \in 1..3 :
         call' = [fn |-> "caption", kuerzel |-> kz, use_original_filenames |-> uo,
                  total |-> total, number |-> number,
                  text |-> caption(Basename, uo, Aktennummer, kz, Dokumentenzahl,
                                   format_image_number(total, number))]
    /\ UNCHANGED runvars

CallOverlay ==
    /\ \E at \in BOOLEAN, ats \in BOOLEAN, dt \in BOOLEAN :
         call' = [fn |-> "overlay", add_timestamp |-> at,
                  add_timestamp_to_saved_files |-> ats, has_datetime |-> dt,
                  saved |-> saved_overlay(at, ats, dt),
                  document |-> document_overlay(at, dt)]
    /\ UNCHANGED runvars

\* Starting photo numbers of a run; the UI accepts 1..999.
RunStarts == {1, 2, 8, 9, 10, 98, 99, 100, 990, 999}

\* The first and the last photo number of one run of total_images images
\* that starts at start_photo_number, as format_image_number renders them.
CallNumbers ==
    /\ \E total \in FormatTotals \ {0}, start \in RunStarts :
         call' = [fn |-> "numbers", total_images |-> total,
                  start_photo_number |-> start,
                  first |-> format_image_number(total, start),
                  last |-> format_image_number(total, start + total - 1)]
    /\ UNCHANGED runvars

InitHelpers ==
    /\ Init
    /\ image_paths = <<>>
    /\ ~copy_images_to_output_dir /\ ~zip_images /\ ~delete_originals
    /\ start_photo_number = 1

NextHelpers == CallFormat \/ CallCaption \/ CallOverlay \/ CallNumbers

SpecHelpers == InitHelpers /\ [][NextHelpers]_vars

(***************************************************************************)
(* Properties of the helper functions                                      *)
(***************************************************************************)
DigitValue(c) == CHOOSE d \in 0..9 : DigitChars[d + 1] = c

RECURSIVE Value(_)
Value(text) ==
    IF text = <<>> THEN 0
    ELSE 10 * Value(SubSeq(text, 1, Len(text) - 1)) + DigitValue(text[Len(text)])

NumDigits(number) ==
    IF number < 10 THEN 1 ELSE IF number < 100 THEN 2
    ELSE IF number < 1000 THEN 3 ELSE 4

PadWidth(total) == IF total < 10 THEN 1 ELSE IF total < 100 THEN 2 ELSE 3

Larger(a, b) == IF a >= b THEN a ELSE b

\* C16: the rendered photo number reads as the number and its length is the
\* padding width chosen by the photo count alone (none under 10 photos, 2
\* under 100, 3 otherwise), or the number's own length when that is larger;
\* with 5 photos 3 renders "3", with 50 "03", with 500 "003".
C16_PaddingByTotal ==
    call.fn = "format_image_number" =>
        /\ \A j \in 1..Len(call.text) : call.text[j] \in {DigitChars[d] : d \in 1..10}
        /\ Value(call.text) = call.number
        /\ Len(call.text) = Larger(PadWidth(call.total), NumDigits(call.number))
        /\ call.number = 3 /\ call.total = 5 => call.text = <<"3">>
        /\ call.number = 3 /\ call.total = 50 => call.text = <<"0", "3">>
        /\ call.number = 3 /\ call.total = 500 => call.text = <<"0", "0", "3">>

C16_Witness ==
    /\ call.fn = "format_image_number"
    /\ call.total = 50
    /\ call.number = 3
    /\ call.text = <<"0", "3">>

\* C17: in a synthesized caption the document-type code is left out when it
\* is the placeholder or empty ("12345-7 Foto Nr. n", one hyphen), and the
\* caption is "<case>-<code>-<count> Foto Nr. n" otherwise.
C17_CodeOmittedWhenPlaceholderOrEmpty ==
    call.fn = "caption" /\ ~call.use_original_filenames =>
        LET num == format_image_number(call.total, call.number)
        IN call.text =
             IF call.kuerzel \in {Placeholder, <<>>}
             THEN Aktennummer \o <<"-">> \o Dokumentenzahl \o FotoNr \o num
             ELSE Aktennummer \o <<"-">> \o call.kuerzel \o <<"-">>
                      \o Dokumentenzahl \o FotoNr \o num

\* C20 as claimed: for an image with a parseable capture time the saved copy
\* is overlaid exactly when the saved-copies flag is set, whatever the
\* in-document flag.
C20_SavedOverlayIndependent ==
    call.fn = "overlay" /\ call.has_datetime =>
        (call.saved <=> call.add_timestamp_to_saved_files)

\* C20 as amended: for an image with a parseable capture time the saved copy
\* is overlaid exactly when both the in-document flag and the saved-copies
\* flag are set, and the in-document image exactly when the in-document flag
\* is set; without a parseable capture time nothing is overlaid.
C20_SavedOverlayNeedsBothFlags ==
    call.fn = "overlay" =>
        /\ call.has_datetime =>
              /\ call.saved <=> (call.add_timestamp /\ call.add_timestamp_to_saved_files)
              /\ call.document <=> call.add_timestamp
        /\ ~call.has_datetime => ~call.saved /\ ~call.document

C20_Witness ==
    /\ call.fn = "overlay"
    /\ call.has_datetime
    /\ ~call.add_timestamp /\ call.add_timestamp_to_saved_files
    /\ ~call.saved /\ ~call.document

(***************************************************************************)
(* Image geometry of processImage and the page layout of run()             *)
(*                                                                         *)
(* A second helper specification: its initial states draw the pixel size   *)
(* of one image after orientation; CallCrop and CallResize apply the crop  *)
(* and the downsampling of processImage to it, CallLayout places the       *)
(* result on a two-image page next to a second image.  Float arithmetic    *)
(* of the code is computed exactly on integers: coordinates of the crop    *)
(* box are kept doubled (left2 = 2 * left), heights on the page are kept   *)
(* multiplied by the two image widths.                                     *)
(***************************************************************************)

\* Every side length up to MaxSmallSide is explored, besides the lengths
\* named in Sides.
MaxSmallSide == 6

Sides == (1..MaxSmallSide) \cup {100, 133, 134, 750, 800, 1000, 1002, 1332, 1500,
                                  2000, 2001, 2105, 2667, 3000, 4000}

\* max_side > 2000 and scale_factor = 2000 / max_side.
MaxSide == 2000

Smaller(a, b) == IF a <= b THEN a ELSE b

\* `width >= height and 1.0 <= aspect_ratio <= 1.33`; the quotient
\* width / height is compared with 1.33 exactly.
crop_applies(width, height) ==
    width >= height /\ height * 1 <= width /\ 100 * width <= 133 * height

\* Variant of crop_box that keeps the height and fits the width to it.
crop_box_heightFirst(width, height) ==
    LET new_height == height
        new_width == (height * 4) \div 3
        left2 == width - new_width
        top2 == height - new_height
    IN [left2 |-> left2, top2 |-> top2,
        right2 |-> left2 + 2 * new_width, bottom2 |-> top2 + 2 * new_height]

\* The box (left, top, right, bottom) given to img.crop, coordinates doubled.
crop_box(width, height) ==
    LET h0 == (width * 3) \div 4
        new_height == IF h0 > height THEN height ELSE h0
        new_width == IF h0 > height THEN (height * 4) \div 3 ELSE width
        left2 == width - new_width
        top2 == height - new_height
    IN [left2 |-> left2, top2 |-> top2,
        right2 |-> left2 + 2 * new_width, bottom2 |-> top2 + 2 * new_height]

\* Pixel lengths img.crop can give to a side of the box from lo2 to hi2: its
\* length, or one pixel more or less when its ends lie on half pixels,
\* depending on how the imaging library rounds them.
crop_lengths(lo2, hi2) ==
    LET len == (hi2 - lo2) \div 2
    IN IF lo2 % 2 = 0 THEN {len} ELSE {len - 1, len, len + 1} \cap Nat

\* Sizes of img after `img = img.crop(...)`.
crop_sizes(width, height) ==
    LET box == crop_box(width, height)
    IN {<<w, h>> : w \in crop_lengths(box.left2, box.right2),
                   h \in crop_lengths(box.top2, box.bottom2)}

\* Variant of max_side that takes the shorter side.
max_side_shorter(width, height) == Smaller(width, height)

\* max(img.width, img.height)
max_side(width, height) == Larger(width, height)

\* int(x * scale_factor) with scale_factor = 2000 / m: the exact quotient
\* truncated; where the exact quotient is an integer q the float product can
\* fall just below it and truncate to q - 1 (m = 2105, x = 2105 gives 1999,
\* m = 4000, x = 3000 gives 1500).
scaled(x, m) ==
    LET q == (MaxSide * x) \div m
    IN IF (MaxSide * x) % m = 0 THEN {q - 1, q} ELSE {q}

\* Sizes of img after the downsampling block.
resize_sizes(width, height) ==
    IF max_side(width, height) > MaxSide
    THEN {<<w, h>> : w \in scaled(width, max_side(width, height)),
                     h \in scaled(height, max_side(width, height))}
    ELSE {<<width, height>>}

\* Sizes the processed copy of an image can have.
processed_sizes(width, height) ==
    UNION {resize_sizes(c[1], c[2]) :
             c \in IF crop_applies(width, height) THEN crop_sizes(width, height)
                   ELSE {<<width, height>>}}

\* processImage, crop block.
CallCrop ==
    /\ call.fn = "image"
    /\ IF crop_applies(call.width, call.height)
       THEN \E c \in crop_sizes(call.width, call.height) :
              call' = [fn |-> "cropped", width |-> call.width, height |-> call.height,
                       cropped |-> TRUE, box |-> crop_box(call.width, call.height),
                       img |-> c]
       ELSE call' = [fn |-> "cropped", width |-> call.width, height |-> call.height,
                     cropped |-> FALSE, box |-> [left2 |-> 0, top2 |-> 0,
                                                 right2 |-> 2 * call.width,
                                                 bottom2 |-> 2 * call.height],
                     img |-> <<call.width, call.height>>]
    /\ UNCHANGED runvars

\* processImage, downsampling block.
CallResize ==
    /\ call.fn = "cropped"
    /\ \E r \in resize_sizes(call.img[1], call.img[2]) :
         call' = [fn |-> "resized", width |-> call.width, height |-> call.height,
                  cropped |-> call.cropped, img |-> call.img,
                  resized |-> max_side(call.img[1], call.img[2]) > MaxSide,
                  out |-> r]
    /\ UNCHANGED runvars

\* Page geometry of run(), in millimetres.
page_width == 210
page_height == 297
margin_top_bottom == 10
header_spacing == 10
offset == 3
spacing_between == 8
text_line_height == 10

\* Pixel sizes <<width, height>> of the letterhead image; they make
\* content_height, uniform_img_dim and the height limit of a pair whole numbers.
Briefkopf == {<<140, 70>>, <<700, 170>>, <<700, 110>>}

\* briefkopf_width_in_pdf / aspect_briefkopf
briefkopf_height_in_pdf(b) == ((page_width \div 3) * b[2]) \div b[1]

content_top(b) == margin_top_bottom + briefkopf_height_in_pdf(b) + header_spacing

content_height(b) == page_height - margin_top_bottom - content_top(b)

\* (content_height - spacing_between - 2 * (offset + text_line_height)) / 1.5
uniform_img_dim(b) ==
    (2 * (content_height(b) - spacing_between - 2 * (offset + text_line_height))) \div 3

\* (content_height - spacing_between) / 2, the largest height of an image of a pair.
pair_height_limit(b) == (content_height(b) - spacing_between) \div 2

RECURSIVE gcd(_, _)
gcd(a, b) == IF b = 0 THEN a ELSE gcd(b, a % b)

\* The size <<w, h>> in lowest terms: the layout uses orig_h / orig_w only.
Ratio(size) == <<size[1] \div gcd(size[1], size[2]), size[2] \div gcd(size[1], size[2])>>

\* new_height of an image of ratio r on a two-image page, multiplied by its
\* own width r[1] and the width other_w of the image it shares the page with.
new_height(r, other_w, b) ==
    LET unclamped == r[2] * uniform_img_dim(b) * other_w
        limit == pair_height_limit(b) * r[1] * other_w
    IN IF unclamped > limit THEN limit ELSE unclamped

\* Original sizes of the second image of a pair.
SecondImages == {<<4000, 3000>>, <<1332, 1000>>, <<1000, 1000>>, <<3000, 2000>>,
                 <<4000, 1000>>}

\* Sizes Image.open(processed_path) can report for an image of the given
\* original size: the size of its processed copy, or the original size when
\* processImage has caught an exception and returned file_path.
placed_sizes(width, height, fallback) ==
    IF fallback THEN {<<width, height>>}
    ELSE {p \in processed_sizes(width, height) : p[1] >= 1 /\ p[2] >= 1}

\* run(), the branch `len(group) == 2`: heights and position of the stack.
CallLayout ==
    /\ call.fn = "resized"
    /\ call.width >= call.height
    /\ \E second \in SecondImages, b \in Briefkopf, fb1 \in BOOLEAN, fb2 \in BOOLEAN :
         \E p2 \in placed_sizes(second[1], second[2], fb2) :
           /\ fb1 \/ (call.out[1] >= 1 /\ call.out[2] >= 1)
           /\ LET p1 == IF fb1 THEN <<call.width, call.height>> ELSE call.out
                  r1 == Ratio(p1)
                  r2 == Ratio(p2)
                  scale == r1[1] * r2[1]
                  new1_height == new_height(r1, r2[1], b)
                  new2_height == new_height(r2, r1[1], b)
              IN call' = [fn |-> "pair", size1 |-> p1, size2 |-> p2,
                          returned_original |-> fb1 \/ fb2,
                          scale |-> scale,
                          content_height |-> content_height(b) * scale,
                          block_total_height |->
                              (new1_height + (offset + text_line_height) * scale)
                              + spacing_between * scale
                              + (new2_height + (offset + text_line_height) * scale)]
    /\ UNCHANGED runvars

InitGeometry ==
    /\ InitWorker
    /\ image_paths = <<>>
    /\ ~copy_images_to_output_dir /\ ~zip_images /\ ~delete_originals
    /\ start_photo_number = 1
    /\ \E w \in Sides, h \in Sides : call = [fn |-> "image", width |-> w, height |-> h]

NextGeometry == CallCrop \/ CallResize \/ CallLayout

SpecGeometry == InitGeometry /\ [][NextGeometry]_vars

(***************************************************************************)
(* Properties of the image geometry                                        *)
(***************************************************************************)

\* x is the product x0 * 2000 / m truncated, at most one pixel below it.
WithinRounding(x, x0, m) == x * m <= MaxSide * x0 /\ MaxSide * x0 <= (x + 1) * m

\* C21: a working copy whose longer side exceeds 2000 px is resized so that
\* its longer side is 2000 px and its shorter side is the shorter side times
\* 2000 / longer, each within one pixel of rounding; a working copy whose
\* longer side is at most 2000 px is not resized.
C21_Downsampling ==
    call.fn = "resized" =>
        LET w == call.img[1]
            h == call.img[2]
            longer == Larger(w, h)
        IN IF longer > MaxSide
           THEN /\ call.resized
                /\ Larger(call.out[1], call.out[2]) \in {MaxSide - 1, MaxSide}
                /\ WithinRounding(call.out[1], w, longer)
                /\ WithinRounding(call.out[2], h, longer)
           ELSE ~call.resized /\ call.out = call.img

C21_Witness ==
    /\ call.fn = "resized"
    /\ call.img = <<4000, 3000>>
    /\ call.resized
    /\ call.out = <<2000, 1500>>

\* C22: an image is cropped exactly when it is wide with width / height in
\* [1.0, 1.33]; the crop box is then centered, inside the image and of size
\* (w, floor(3w/4)) with floor(3w/4) <= h; any other image whose longer side
\* is at most 2000 px leaves processImage with its dimensions unchanged.
C22_CropToFourByThree ==
    /\ call.fn \in {"cropped", "resized"} =>
         LET w == call.width
             h == call.height
         IN call.cropped <=> (w >= h /\ 100 * w <= 133 * h)
    /\ call.fn = "cropped" /\ call.cropped =>
         LET w == call.width
             h == call.height
             box == call.box
         IN /\ box.left2 + box.right2 = 2 * w
            /\ box.top2 + box.bottom2 = 2 * h
            /\ 0 <= box.left2 /\ box.left2 <= box.right2 /\ box.right2 <= 2 * w
            /\ 0 <= box.top2 /\ box.top2 <= box.bottom2 /\ box.bottom2 <= 2 * h
            /\ box.right2 - box.left2 = 2 * w
            /\ box.bottom2 - box.top2 = 2 * ((3 * w) \div 4)
            /\ (3 * w) \div 4 <= h
    /\ call.fn = "resized" /\ ~call.cropped
                           /\ Larger(call.width, call.height) <= MaxSide =>
         call.out = <<call.width, call.height>>

C22_Witness ==
    /\ call.fn = "cropped"
    /\ call.width = 1000 /\ call.height = 800
    /\ call.cropped
    /\ call.box = [left2 |-> 0, top2 |-> 50, right2 |-> 2000, bottom2 |-> 1550]

\* C29: on a two-image page the stack of the two images with their offsets
\* and caption lines and the spacing between them is at most as high as the
\* content area.
C29_PairFitsContentArea ==
    call.fn = "pair" => call.block_total_height <= call.content_height

(***************************************************************************)
(* Properties of the run as a whole                                        *)
(***************************************************************************)

Terminal == {"Completed", "Cancelled", "Failed"}

\* A terminal notification has been emitted.
Notified == Count("finished") + Count("errorOccurred") >= 1

\* One step of the state machine Idle -> Running -> Terminal; nothing is
\* emitted, placed, written or removed once the run has ended.
StateMachineStep ==
    /\ RunState = "Idle" => RunState' \in {"Idle", "Running", "Completed", "Cancelled"}
    /\ RunState = "Running" => RunState' \in {"Running"} \cup Terminal
    /\ RunState \in Terminal \/ Notified =>
         /\ RunState' = RunState
         /\ UNCHANGED <<emitted, pages, progress_count, docWritten, deleted,
                        sinkvars, tempvars>>

\* C23: the run moves Idle -> Running -> {Cancelled, Completed, Failed}; it
\* emits at most one terminal notification, never both the success and the
\* failure notification, the notification ends the run, and after the end
\* nothing more is emitted, placed or written.
C23_StateMachine ==
    /\ [](Count("finished") + Count("errorOccurred") <= 1)
    /\ [](Notified => RunState \in Terminal)
    /\ [][StateMachineStep]_vars

C23_Witness ==
    /\ RunState = "Completed"
    /\ n > 0
    /\ docWritten
    /\ LastSignal(emitted).sig = "finished"
    /\ isCanceled

\* The steps of run() after it has been started.
RunSteps ==
    \/ OpenLetterhead
    \/ GroupStep
    \/ GroupingDone
    \/ LoopHead
    \/ ProcessStep
    \/ PlaceGroup
    \/ FinalCheck
    \/ WriteDocument
    \/ CleanupTemp
    \/ CloseZip
    \/ DeleteOriginals
    \/ Finish

\* C24: the grouping scan takes at most n steps, and under fair scheduling
\* of the worker thread every started run reaches Completed, Cancelled or
\* Failed.
C24_RunTerminates ==
    /\ [](Len(grouped) <= n /\ i <= n + 1)
    /\ (RunState = "Running") ~> (RunState \in Terminal)

C24_Witness ==
    /\ RunState = "Completed"
    /\ n >= 3
    /\ Len(grouped) = n
    /\ docWritten

\* The steps of the finalization, told by what they change.
DocumentWritten == ~docWritten /\ docWritten'
TempRemoved == tempDir /\ ~tempDir'
ArchiveClosed == zipFile # "closed" /\ zipFile' = "closed"
OriginalsDeleted == deleted' # deleted
CompletionReported == emitted' = Append(emitted, Signal("finished", "save_path", 0))

\* Order of the finalization as the specification lists it: document,
\* archive, originals, temporary files, notification.
FinalizationStepAsListed ==
    /\ ArchiveClosed => docWritten /\ tempDir' = tempDir
    /\ OriginalsDeleted => docWritten /\ zipf # "open"
    /\ TempRemoved =>
         /\ docWritten
         /\ zipf # "open"
         /\ (delete_originals /\ copied_originals # <<>>) => deleted # {}
    /\ CompletionReported /\ pc = "finish" => docWritten

\* Order of the finalization in run(): document, temporary files, archive,
\* originals, notification.
FinalizationStep ==
    /\ DocumentWritten => ~Notified /\ tempFiles' = tempFiles /\ zipFile # "closed"
                                    /\ deleted = {}
    /\ TempRemoved => docWritten /\ ~Notified /\ zipFile # "closed" /\ deleted = {}
    /\ ArchiveClosed => docWritten /\ ~Notified /\ deleted = {} /\ tempDir' = tempDir
    /\ OriginalsDeleted => docWritten /\ ~Notified /\ zipFile' = zipFile
                                      /\ tempDir' = tempDir
    /\ CompletionReported /\ pc = "finish" =>
         docWritten /\ UNCHANGED <<docWritten, deleted, sinkvars, tempvars>>

\* C25 as stated: on normal completion the document is written, then the
\* archive is closed, then the originals are deleted, then the temporary
\* working files are removed, then Completed is reported.
C25_FinalizationOrderAsListed == [][FinalizationStepAsListed]_vars

\* C25: on normal completion the document is written, then the temporary
\* working files are removed, then the open archive is closed, then (if
\* enabled) the copied originals are deleted, and only then Completed is
\* reported.
C25_FinalizationOrder == [][FinalizationStep]_vars

C25_Witness ==
    /\ RunState = "Completed"
    /\ docWritten
    /\ pages # <<>>
    /\ ~tempDir /\ tempFiles = {}
    /\ zipFile = "closed"
    /\ deleted # {}
    /\ LastSignal(emitted).sig = "finished"

\* Progress notifications emitted after cancel() has set the flag.
TicksAfterCancel ==
    Cardinality({j \in 1..Len(emitted) : /\ emitted[j].sig = "progressUpdate"
                                         /\ emitted[j].count > cancelAt.progress})

\* What a step may do once the flag is set.
AfterCancelStep ==
    /\ isCanceled => isCanceled'
    /\ isCanceled /\ pc = "loop" => pages' = pages /\ pc' \in {"loop", "final"}
    /\ observedCancel => /\ observedCancel'
                         /\ pages' = pages
                         /\ progress_count' = progress_count

\* C26: once cancel() has set the flag, the run starts no group after its
\* next check at a group boundary; at most the group in flight is finished,
\* so at most one more progress tick and at most two more placed images
\* follow, none if the flag was set at a boundary; the flag is never cleared.
C26_BoundedCancelResponse ==
    /\ [](isCanceled =>
            /\ TicksAfterCancel <= 1
            /\ progress_count <= cancelAt.progress + 2
            /\ cancelAt.pc = "boundary" => progress_count = cancelAt.progress)
    /\ [][AfterCancelStep]_vars

C26_Witness ==
    /\ isCanceled
    /\ cancelAt.pc = "group"
    /\ progress_count = cancelAt.progress + 2
    /\ TicksAfterCancel = 1
    /\ RunState = "Cancelled"
    /\ gi <= Len(grouped)

\* C27: whenever the success notification has been emitted, the document
\* was written to the path it carries during the same run, also for an empty
\* image list and for a flag that was set before the run started.
C27_FinishedImpliesDocument == Count("finished") >= 1 => docWritten

\* The run has ended without an exception after every group was placed.
AllPlaced == n > 0 /\ pc = "done" /\ exc = "none" /\ progress_count = n

\* C28 as stated: a run in which every group was placed and no exception
\* occurred ends Completed with the document written, whenever cancel() came.
C28_AllPlacedCompletes ==
    AllPlaced => docWritten /\ RunState = "Completed" /\ Count("finished") = 1

\* C28: a run in which every group was placed and no exception occurred
\* ends Completed with the document written exactly when the flag is not set
\* at the check after the loop (line 437); a cancel() that arrived while the
\* last group was processed ends it Cancelled, with all images placed, no
\* document and no notification; a cancel() after that check changes nothing.
C28_AllPlacedCompletesUnlessCancelled ==
    AllPlaced =>
        /\ ~isCanceled => docWritten
        /\ isCanceled /\ cancelAt.pc = "group" => ~docWritten
        /\ docWritten <=> ~observedCancel
        /\ docWritten => RunState = "Completed" /\ Count("finished") = 1
        /\ ~docWritten => /\ RunState = "Cancelled"
                          /\ Count("finished") = 0 /\ Count("errorOccurred") = 0

C28_Witness ==
    /\ AllPlaced
    /\ isCanceled
    /\ cancelAt.pc = "group"
    /\ cancelAt.progress < n
    /\ ~docWritten
    /\ emitted # <<>> /\ LastSignal(emitted).sig = "progressUpdate"

\* C30: within one run all rendered photo numbers have the same number of
\* digits, for every starting number 1..999 and every photo count.
C30_UniformDigits ==
    call.fn = "numbers" => Len(call.first) = Len(call.last)

Next ==
    \/ cancel
    \/ RunStart
    \/ OpenLetterhead
    \/ GroupStep
    \/ GroupingDone
    \/ LoopHead
    \/ ProcessStep
    \/ PlaceGroup
    \/ FinalCheck
    \/ WriteDocument
    \/ CleanupTemp
    \/ CloseZip
    \/ DeleteOriginals
    \/ Finish

Spec == Init /\ [][Next]_vars

\* Largest number of input images explored under fair scheduling.
MaxImagesFair == 3

\* The photo numbers play no part in the control flow of run(), so the
\* fair specification starts every run at photo number 1.
InitFair == Init /\ start_photo_number = 1 /\ n <= MaxImagesFair

\* The worker thread is scheduled fairly once run() has been started; the
\* caller is free to call cancel() or not, and to start the run or not.
SpecFair == InitFair /\ [][Next]_vars /\ WF_vars(RunSteps)
====
